---- MODULE Spec2Model ----
(***************************************************************************)
(* Model of the terraform Executor (src/terraform/executor.go).            *)
(*                                                                         *)
(* A Go string is a sequence of one-character strings, so that HasSuffix,  *)
(* TrimSuffix, Sprintf concatenation, path rendering and the version       *)
(* regular expression are computed character by character.  A Go error is  *)
(* a record: the nil error, or an error with its message.  Every Executor  *)
(* method is one action; its collaborators (State Store, Process Runner,   *)
(* file system) answer with values drawn from small sets.                  *)
(***************************************************************************)
EXTENDS Integers, Sequences, FiniteSets, TLC

(***************************************************************************)
(* String literals of the source.                                          *)
(***************************************************************************)
\* the grave accent character, which a TLA+ string cannot hold
backquote ==
    "GRAVE"
\* the fixed message that replaces a redacted error (executor.go:18)
redactedError ==
    <<"S", "o", "m", "e", " ", "o", "u", "t", "p", "u", "t", " ", "h", "a", "s", " ", "b", "e", "e", "n", " ", "r", "e", "d", "a", "c", "t", "e", "d", ",", " ", "u", "s", "e", " ", backquote, "b", "b", "l", " ", "l", "a", "t", "e", "s", "t", "-", "e", "r", "r", "o", "r", backquote, " ", "t", "o", " ", "s", "e", "e", " ", "i", "t", " ", "o", "r", " ", "r", "u", "n", " ", "a", "g", "a", "i", "n", " ", "w", "i", "t", "h", " ", "-", "-", "d", "e", "b", "u", "g", " ", "f", "o", "r", " ", "a", "d", "d", "i", "t", "i", "o", "n", "a", "l", " ", "d", "e", "b", "u", "g", " ", "o", "u", "t", "p", "u", "t">>
\* "init"
sInit ==
    <<"i", "n", "i", "t">>
\* "apply"
sApply ==
    <<"a", "p", "p", "l", "y">>
\* "--auto-approve"
sAutoApprove ==
    <<"-", "-", "a", "u", "t", "o", "-", "a", "p", "p", "r", "o", "v", "e">>
\* "destroy"
sDestroy ==
    <<"d", "e", "s", "t", "r", "o", "y">>
\* "-force"
sForce ==
    <<"-", "f", "o", "r", "c", "e">>
\* "-var"
sVar ==
    <<"-", "v", "a", "r">>
\* "-state"
sState ==
    <<"-", "s", "t", "a", "t", "e">>
\* "-var-file"
sVarFile ==
    <<"-", "v", "a", "r", "-", "f", "i", "l", "e">>
\* "version"
sVersion ==
    <<"v", "e", "r", "s", "i", "o", "n">>
\* "output"
sOutput ==
    <<"o", "u", "t", "p", "u", "t">>
\* "--json"
sJson ==
    <<"-", "-", "j", "s", "o", "n">>
\* "show"
sShow ==
    <<"s", "h", "o", "w">>
\* "TF_WARN_OUTPUT_ERRORS=1"
sWarnOutputErrors ==
    <<"T", "F", "_", "W", "A", "R", "N", "_", "O", "U", "T", "P", "U", "T", "_", "E", "R", "R", "O", "R", "S", "=", "1">>
\* "/tmp"
sTmp ==
    <<"/", "t", "m", "p">>
\* ".tfvars"
sTfvarsSuffix ==
    <<".", "t", "f", "v", "a", "r", "s">>
\* "terraform.tfstate"
sTfstate ==
    <<"t", "e", "r", "r", "a", "f", "o", "r", "m", ".", "t", "f", "s", "t", "a", "t", "e">>
\* "bbl-template.tf"
sTemplateName ==
    <<"b", "b", "l", "-", "t", "e", "m", "p", "l", "a", "t", "e", ".", "t", "f">>
\* ".terraform"
sDotTerraform ==
    <<".", "t", "e", "r", "r", "a", "f", "o", "r", "m">>
\* ".gitignore"
sGitignore ==
    <<".", "g", "i", "t", "i", "g", "n", "o", "r", "e">>
\* "bbl.tfvars"
sBblTfvars ==
    <<"b", "b", "l", ".", "t", "f", "v", "a", "r", "s">>
\* "*\n"
sStar ==
    <<"*", "\n">>
\* "No state."
sNoState ==
    <<"N", "o", " ", "s", "t", "a", "t", "e", ".">>
\* "Write terraform template: "
pWriteTemplate ==
    <<"W", "r", "i", "t", "e", " ", "t", "e", "r", "r", "a", "f", "o", "r", "m", " ", "t", "e", "m", "p", "l", "a", "t", "e", ":", " ">>
\* "Create .terraform directory: "
pCreateDir ==
    <<"C", "r", "e", "a", "t", "e", " ", ".", "t", "e", "r", "r", "a", "f", "o", "r", "m", " ", "d", "i", "r", "e", "c", "t", "o", "r", "y", ":", " ">>
\* "Write .gitignore for terraform binaries: "
pWriteGitignore ==
    <<"W", "r", "i", "t", "e", " ", ".", "g", "i", "t", "i", "g", "n", "o", "r", "e", " ", "f", "o", "r", " ", "t", "e", "r", "r", "a", "f", "o", "r", "m", " ", "b", "i", "n", "a", "r", "i", "e", "s", ":", " ">>
\* "Write terraform vars: "
pWriteVars ==
    <<"W", "r", "i", "t", "e", " ", "t", "e", "r", "r", "a", "f", "o", "r", "m", " ", "v", "a", "r", "s", ":", " ">>
\* "Get relative terraform state path: "
pRelState ==
    <<"G", "e", "t", " ", "r", "e", "l", "a", "t", "i", "v", "e", " ", "t", "e", "r", "r", "a", "f", "o", "r", "m", " ", "s", "t", "a", "t", "e", " ", "p", "a", "t", "h", ":", " ">>
\* "Read contents of vars directory: "
pReadDir ==
    <<"R", "e", "a", "d", " ", "c", "o", "n", "t", "e", "n", "t", "s", " ", "o", "f", " ", "v", "a", "r", "s", " ", "d", "i", "r", "e", "c", "t", "o", "r", "y", ":", " ">>
\* "Get relative terraform vars path: "
pRelVars ==
    <<"G", "e", "t", " ", "r", "e", "l", "a", "t", "i", "v", "e", " ", "t", "e", "r", "r", "a", "f", "o", "r", "m", " ", "v", "a", "r", "s", " ", "p", "a", "t", "h", ":", " ">>
\* "Run terraform init: "
pInit ==
    <<"R", "u", "n", " ", "t", "e", "r", "r", "a", "f", "o", "r", "m", " ", "i", "n", "i", "t", ":", " ">>
\* "Run terraform init in terraform dir: "
pInitInDir ==
    <<"R", "u", "n", " ", "t", "e", "r", "r", "a", "f", "o", "r", "m", " ", "i", "n", "i", "t", " ", "i", "n", " ", "t", "e", "r", "r", "a", "f", "o", "r", "m", " ", "d", "i", "r", ":", " ">>
\* "Run terraform output -state: "
pOutput ==
    <<"R", "u", "n", " ", "t", "e", "r", "r", "a", "f", "o", "r", "m", " ", "o", "u", "t", "p", "u", "t", " ", "-", "s", "t", "a", "t", "e", ":", " ">>
\* "Run terraform output --json in vars dir: "
pOutputs ==
    <<"R", "u", "n", " ", "t", "e", "r", "r", "a", "f", "o", "r", "m", " ", "o", "u", "t", "p", "u", "t", " ", "-", "-", "j", "s", "o", "n", " ", "i", "n", " ", "v", "a", "r", "s", " ", "d", "i", "r", ":", " ">>
\* "Unmarshal terraform output: "
pUnmarshal ==
    <<"U", "n", "m", "a", "r", "s", "h", "a", "l", " ", "t", "e", "r", "r", "a", "f", "o", "r", "m", " ", "o", "u", "t", "p", "u", "t", ":", " ">>
\* "Run terraform show: "
pShow ==
    <<"R", "u", "n", " ", "t", "e", "r", "r", "a", "f", "o", "r", "m", " ", "s", "h", "o", "w", ":", " ">>
\* "Terraform version could not be parsed"
sVersionParse ==
    <<"T", "e", "r", "r", "a", "f", "o", "r", "m", " ", "v", "e", "r", "s", "i", "o", "n", " ", "c", "o", "u", "l", "d", " ", "n", "o", "t", " ", "b", "e", " ", "p", "a", "r", "s", "e", "d">>
\* "Rel: can't make "
sRelCant ==
    <<"R", "e", "l", ":", " ", "c", "a", "n", "'", "t", " ", "m", "a", "k", "e", " ">>
\* " relative to "
sRelativeTo ==
    <<" ", "r", "e", "l", "a", "t", "i", "v", "e", " ", "t", "o", " ">>

(***************************************************************************)
(* Bounds and the values the collaborators may answer with.                *)
(***************************************************************************)
MaxEntries == 2
MaxOutLen == 5

\* error texts a Process Runner failure may carry
RunErrTexts ==
    {<<"e", "x", "i", "t", " ", "1">>, <<"p", "w", "=", "x">>}
\* error texts of the State Store and of the file system
sTerraformDirErr ==
    <<"n", "o", " ", "t", "f", " ", "d", "i", "r">>
sVarsDirErr ==
    <<"n", "o", " ", "v", "a", "r", "s", " ", "d", "i", "r">>
sNotExist ==
    <<"n", "o", " ", "f", "i", "l", "e">>
sFsErr ==
    <<"d", "e", "n", "i", "e", "d">>

(***************************************************************************)
(* Errors.                                                                 *)
(***************************************************************************)
Nil ==
    [isNil |-> TRUE, msg |-> <<>>]
Err(m) ==
    [isNil |-> FALSE, msg |-> m]
\* mutant: the wrapped error's text is dropped
ErrorfBare(prefix, e) ==
    Err(prefix)
\* fmt.Errorf("<prefix>%s", err)
Errorf(prefix, e) ==
    Err(prefix \o e.msg)

(***************************************************************************)
(* package strings                                                         *)
(***************************************************************************)
HasSuffix(s, suffix) ==
    /\ Len(s) >= Len(suffix)
    /\ SubSeq(s, Len(s) - Len(suffix) + 1, Len(s)) = suffix
TrimSuffix(s, suffix) ==
    IF HasSuffix(s, suffix) THEN SubSeq(s, 1, Len(s) - Len(suffix)) ELSE s
RECURSIVE StringsJoin(_, _)
StringsJoin(elems, sep) ==
    IF elems = <<>> THEN <<>>
    ELSE IF Len(elems) = 1 THEN elems[1]
    ELSE elems[1] \o sep \o StringsJoin(Tail(elems), sep)
\* strings.Replace(s, "\n", "\\n", -1)
RECURSIVE ReplaceNewlines(_)
ReplaceNewlines(s) ==
    IF s = <<>> THEN <<>>
    ELSE (IF s[1] = "\n" THEN <<"\\", "n">> ELSE <<s[1]>>) \o ReplaceNewlines(Tail(s))

(***************************************************************************)
(* package path/filepath, on clean paths.  A path is absolute or relative  *)
(* and has a sequence of components; PathString is the Go string.          *)
(***************************************************************************)
PathString(p) ==
    IF p.abs THEN <<"/">> \o StringsJoin(p.comps, <<"/">>)
    ELSE IF p.comps = <<>> THEN <<".">>
    ELSE StringsJoin(p.comps, <<"/">>)
\* filepath.Join(dir, name)
Join(dir, name) ==
    [abs |-> dir.abs, comps |-> Append(dir.comps, name)]
CommonPrefixLen(b, t) ==
    CHOOSE k \in 0..Len(b) :
        /\ k <= Len(t)
        /\ SubSeq(b, 1, k) = SubSeq(t, 1, k)
        /\ \A j \in (k + 1)..Len(b) : j > Len(t) \/ SubSeq(b, 1, j) # SubSeq(t, 1, j)
\* filepath.Rel(basepath, targpath): the string and the error
Rel(base, targ) ==
    IF base = targ THEN [path |-> <<".">>, err |-> Nil]
    ELSE IF base.abs # targ.abs
    THEN [path |-> <<>>,
          err |-> Err(sRelCant \o PathString(targ) \o sRelativeTo \o PathString(base))]
    ELSE LET k == CommonPrefixLen(base.comps, targ.comps)
             ups == [i \in 1..(Len(base.comps) - k) |-> <<".", ".">>]
             rest == SubSeq(targ.comps, k + 1, Len(targ.comps))
         IN [path |-> StringsJoin(ups \o rest, <<"/">>), err |-> Nil]

Perms(S) ==
    {f \in [1..Cardinality(S) -> S] : \A i, j \in 1..Cardinality(S) : f[i] = f[j] => i = j}

(***************************************************************************)
(* Inputs: directory paths, file names, credentials.                       *)
(***************************************************************************)
fA ==
    <<"a", ".", "t", "f", "v", "a", "r", "s">>
fB ==
    <<"b", ".", "t", "f", "v", "a", "r", "s">>
fNotes ==
    <<"n", "o", "t", "e", "s", ".", "t", "x", "t">>
FileNames ==
    {fA, fB, fNotes, sTfstate}
TerraformDirs ==
    {[abs |-> TRUE, comps |-> << <<"s">>, <<"t", "f">> >>],
     [abs |-> FALSE, comps |-> << >>]}
VarsDirs ==
    {[abs |-> TRUE, comps |-> << <<"s">>, <<"v">> >>],
     [abs |-> TRUE, comps |-> << <<"s">>, <<"t", "f">>, <<"v">> >>],
     [abs |-> FALSE, comps |-> << <<"v">> >>]}
\* map[string]string values handed to Apply and Destroy
CredentialMaps ==
    {{},
     {[key |-> <<"k">>, value |-> <<"v">>]},
     {[key |-> <<"k">>, value |-> <<"v">>], [key |-> <<"j">>, value |-> <<"w", "=", "1">>]}}
OutputNames ==
    {<<"i", "p">>, <<"-", "v", "a", "r", "-", "f", "i", "l", "e">>}

VARIABLES
    debug,          \* Executor.debug
    terraformDir,   \* the path GetTerraformDir answers with
    varsDir,        \* the path GetVarsDir answers with
    varsEntries,    \* names of the entries of the vars directory
    templateFile,   \* <terraformDir>/bbl-template.tf
    dotTerraform,   \* whether <terraformDir>/.terraform is a directory
    gitignoreFile,  \* <terraformDir>/.terraform/.gitignore
    bblTfvarsFile,  \* <varsDir>/bbl.tfvars
    op,             \* the method called last
    given,          \* its arguments
    before,         \* the files as they were when it was called
    err,            \* the error it returned
    retStr,         \* the string it returned (Version, Output)
    retBool,        \* the bool it returned (IsPaved)
    retMap,         \* the map it returned (Outputs)
    calls,          \* the Process Runner invocations it made, in order
    events          \* every collaborator call it made, in order

vars ==
    <<debug, terraformDir, varsDir, varsEntries, templateFile, dotTerraform,
      gitignoreFile, bblTfvarsFile, op, given, before, err, retStr, retBool,
      retMap, calls, events>>
config ==
    <<debug, terraformDir, varsDir>>
disk ==
    <<varsEntries, templateFile, dotTerraform, gitignoreFile, bblTfvarsFile>>

Absent ==
    [exists |-> FALSE, data |-> <<>>]
File(data) ==
    [exists |-> TRUE, data |-> data]
Snapshot ==
    [templateFile |-> templateFile, dotTerraform |-> dotTerraform,
     gitignoreFile |-> gitignoreFile, bblTfvarsFile |-> bblTfvarsFile,
     varsEntries |-> varsEntries]
NoArguments ==
    [template |-> <<>>, vars |-> <<>>, credentials |-> <<>>, outputName |-> <<>>]
NoMap ==
    [k \in {} |-> <<>>]

\* what a method hands back, with the collaborator calls it made
Result(e, s, b, m, cs, ev) ==
    [err |-> e, str |-> s, bool |-> b, map |-> m, calls |-> cs, events |-> ev]
Failure(e, cs, ev) ==
    Result(e, <<>>, FALSE, NoMap, cs, ev)
\* one call of a collaborator and the error it answered with
Called(call, e) ==
    [call |-> call, err |-> e]
Ok(call) ==
    Called(call, Nil)
\* one Run or RunWithEnv invocation and what the Process Runner answered
Invocation(method, stdout, dir, args, envs, dbg, answer) ==
    [method |-> method, stdout |-> stdout, dir |-> dir, args |-> args,
     envs |-> envs, debug |-> dbg, result |-> answer.err, out |-> answer.out]

StoreAnswers(text) ==
    {Nil, Err(text)}
RunFailures ==
    {[err |-> Err(t), out |-> <<>>] : t \in RunErrTexts}
RunSuccess(out) ==
    [err |-> Nil, out |-> out]
ReadDirAnswers ==
    {[err |-> Err(sFsErr), files |-> <<>>]}
        \cup {[err |-> Nil, files |-> f] : f \in Perms(varsEntries)}

(***************************************************************************)
(* runTFCommandWithEnvs, Apply, Destroy, Init                              *)
(***************************************************************************)
\* mutant: the error is returned whatever the debug flag
RunFailedLeaky(e) ==
    e
\* lines 152-157: what a failed RunWithEnv turns into
RunFailed(e) ==
    IF debug THEN e ELSE Err(redactedError)
\* mutant: every entry of the directory is taken for a variable file
IsVarsFileAny(name) ==
    TRUE
\* line 140
IsVarsFile(name) ==
    HasSuffix(name, sTfvarsSuffix)
\* lines 139-149: the arguments after the loop over the directory entries
RECURSIVE VarFileArgs(_, _)
VarFileArgs(files, args) ==
    IF files = <<>> THEN [args |-> args, err |-> Nil]
    ELSE IF IsVarsFile(files[1])
    THEN LET rel == Rel(terraformDir, Join(varsDir, files[1]))
         IN IF ~rel.err.isNil
            THEN [args |-> args, err |-> Errorf(pRelVars, rel.err)]
            ELSE VarFileArgs(Tail(files), args \o <<sVarFile, rel.path>>)
    ELSE VarFileArgs(Tail(files), args)

runTFCommandWithEnvs(args, envs, varsDirErr, terraformDirErr, readDir, run) ==
    IF ~varsDirErr.isNil
    THEN Failure(varsDirErr, <<>>, <<Called("GetVarsDir", varsDirErr)>>)
    ELSE IF ~terraformDirErr.isNil
    THEN Failure(terraformDirErr, <<>>,
                 <<Ok("GetVarsDir"), Called("GetTerraformDir", terraformDirErr)>>)
    ELSE LET rel == Rel(terraformDir, Join(varsDir, sTfstate))
         IN IF ~rel.err.isNil
            THEN Failure(Errorf(pRelState, rel.err), <<>>,
                         <<Ok("GetVarsDir"), Ok("GetTerraformDir")>>)
            ELSE IF ~readDir.err.isNil
            THEN Failure(Errorf(pReadDir, readDir.err), <<>>,
                         <<Ok("GetVarsDir"), Ok("GetTerraformDir"),
                           Called("ReadDir", readDir.err)>>)
            ELSE LET withFiles == VarFileArgs(readDir.files, args \o <<sState, rel.path>>)
                 IN IF ~withFiles.err.isNil
                    THEN Failure(withFiles.err, <<>>,
                                 <<Ok("GetVarsDir"), Ok("GetTerraformDir"), Ok("ReadDir")>>)
                    ELSE Result(IF run.err.isNil THEN Nil ELSE RunFailed(run.err),
                                <<>>, FALSE, NoMap,
                                <<Invocation("RunWithEnv", "os.Stdout", PathString(terraformDir),
                                             withFiles.args, envs, debug, run)>>,
                                <<Ok("GetVarsDir"), Ok("GetTerraformDir"), Ok("ReadDir"),
                                  Called("RunWithEnv", run.err)>>)

runTFCommand(args, varsDirErr, terraformDirErr, readDir, run) ==
    runTFCommandWithEnvs(args, <<>>, varsDirErr, terraformDirErr, readDir, run)

\* the loop over the credentials, in the order the map iteration yields them
RECURSIVE CredentialArgs(_, _)
CredentialArgs(credentials, args) ==
    IF credentials = <<>> THEN args
    ELSE CredentialArgs(Tail(credentials),
                        args \o <<sVar, credentials[1].key \o <<"=">> \o credentials[1].value>>)

ApplyCall(credentials, varsDirErr, terraformDirErr, readDir, run) ==
    runTFCommand(CredentialArgs(credentials, <<sApply, sAutoApprove>>),
                 varsDirErr, terraformDirErr, readDir, run)

DestroyCall(credentials, varsDirErr, terraformDirErr, readDir, run) ==
    runTFCommandWithEnvs(CredentialArgs(credentials, <<sDestroy, sForce>>),
                         <<sWarnOutputErrors>>, varsDirErr, terraformDirErr, readDir, run)

InitCall(terraformDirErr, run) ==
    IF ~terraformDirErr.isNil
    THEN Failure(terraformDirErr, <<>>, <<Called("GetTerraformDir", terraformDirErr)>>)
    ELSE LET inv == Invocation("Run", "os.Stdout", PathString(terraformDir), <<sInit>>,
                               <<>>, debug, run)
             ev == <<Ok("GetTerraformDir"), Called("Run", run.err)>>
         IN IF ~run.err.isNil
            THEN Failure(Errorf(pInit, run.err), <<inv>>, ev)
            ELSE Result(Nil, <<>>, FALSE, NoMap, <<inv>>, ev)

(***************************************************************************)
(* Version                                                                 *)
(***************************************************************************)
IsDigit(c) ==
    c \in {"0", "1", "2", "3", "4", "5", "6", "7", "8", "9"}
\* the regular expression's "." : any character but a newline
AnyChar(c) ==
    c # "\n"
AllDigits(s, i, j) ==
    i <= j /\ \A k \in i..j : IsDigit(s[k])
\* <<a, b, c>>: s[i..a] digits, s[a+1] a separator, s[a+2..b] digits,
\* s[b+1] a separator, s[b+2..c] digits
Matches(s, i, separators) ==
    {m \in (1..Len(s)) \X (1..Len(s)) \X (1..Len(s)) :
        /\ AllDigits(s, i, m[1])
        /\ m[1] + 1 <= Len(s) /\ s[m[1] + 1] \in separators
        /\ AllDigits(s, m[1] + 2, m[2])
        /\ m[2] + 1 <= Len(s) /\ s[m[2] + 1] \in separators
        /\ AllDigits(s, m[2] + 2, m[3])
        /\ m[3] <= Len(s)}
\* regexp.FindString for digits, separator, digits, separator, digits, where
\* a separator is one character of the set separators: the
\* leftmost match, each digit run as long as the rest of the match allows
FindMatch(s, separators) ==
    LET starts == {i \in 1..Len(s) : Matches(s, i, separators) # {}}
    IN IF starts = {} THEN <<>>
       ELSE LET i == CHOOSE x \in starts : \A y \in starts : x <= y
                ms == Matches(s, i, separators)
                best == CHOOSE m \in ms : \A o \in ms :
                            \/ m[1] > o[1]
                            \/ m[1] = o[1] /\ m[2] > o[2]
                            \/ m[1] = o[1] /\ m[2] = o[2] /\ m[3] >= o[3]
            IN SubSeq(s, i, best[3])
\* lines 201-203: regexp.MustCompile(`\d+.\d+.\d+`).FindString(versionOutput)
FindVersion(versionOutput) ==
    FindMatch(versionOutput,
              {versionOutput[k] : k \in {j \in 1..Len(versionOutput) :
                                            AnyChar(versionOutput[j])}})

VersionCall(run) ==
    LET inv == Invocation("Run", "buffer", sTmp, <<sVersion>>, <<>>, TRUE, run)
    IN IF ~run.err.isNil
       THEN Failure(run.err, <<inv>>, <<Called("Run", run.err)>>)
       ELSE LET version == FindVersion(run.out)
            IN IF version = <<>>
               THEN Failure(Err(sVersionParse), <<inv>>, <<Ok("Run")>>)
               ELSE Result(Nil, version, FALSE, NoMap, <<inv>>, <<Ok("Run")>>)

(***************************************************************************)
(* Output, Outputs, IsPaved                                                *)
(***************************************************************************)
\* e.fs.Stat(filepath.Join(varsDir, "terraform.tfstate"))
Stat ==
    Called("Stat", IF sTfstate \in varsEntries THEN Nil ELSE Err(sNotExist))
\* mutant: the -state pair is appended without looking at Stat's answer
StatePointerAlways(args) ==
    args \o <<sState, PathString(Join(varsDir, sTfstate))>>
\* mutant: the variable files of the vars directory are appended as well
StatePointerWithVarFiles(args) ==
    VarFileArgs(CHOOSE f \in Perms(varsEntries) : TRUE,
                IF Stat.err.isNil
                THEN args \o <<sState, PathString(Join(varsDir, sTfstate))>>
                ELSE args).args
\* lines 228-231, 259-262, 300-303
StatePointer(args) ==
    IF Stat.err.isNil THEN args \o <<sState, PathString(Join(varsDir, sTfstate))>> ELSE args

OutputCall(outputName, terraformDirErr, varsDirErr, initRun, run) ==
    IF ~terraformDirErr.isNil
    THEN Failure(terraformDirErr, <<>>, <<Called("GetTerraformDir", terraformDirErr)>>)
    ELSE IF ~varsDirErr.isNil
    THEN Failure(varsDirErr, <<>>, <<Ok("GetTerraformDir"), Called("GetVarsDir", varsDirErr)>>)
    ELSE LET init == Invocation("Run", "os.Stdout", PathString(terraformDir), <<sInit>>,
                                <<>>, debug, initRun)
         IN IF ~initRun.err.isNil
            THEN Failure(Errorf(pInitInDir, initRun.err), <<init>>,
                         <<Ok("GetTerraformDir"), Ok("GetVarsDir"), Called("Run", initRun.err)>>)
            ELSE LET inv == Invocation("Run", "buffer", PathString(terraformDir),
                                       StatePointer(<<sOutput, outputName>>), <<>>, TRUE, run)
                     ev == <<Ok("GetTerraformDir"), Ok("GetVarsDir"), Ok("Run"), Stat,
                             Called("Run", run.err)>>
                 IN IF ~run.err.isNil
                    THEN Failure(Errorf(pOutput, run.err), <<init, inv>>, ev)
                    ELSE Result(Nil, TrimSuffix(run.out, <<"\n">>), FALSE, NoMap,
                                <<init, inv>>, ev)

\* json.Unmarshal(buffer.Bytes(), &tfOutputs): a document is either not JSON
\* or an object of name -> {Sensitive, Type, Value}
sJsonErr ==
    <<"b", "a", "d", " ", "j", "s", "o", "n">>
Unmarshal(doc) ==
    IF doc.valid THEN [err |-> Nil, tfOutputs |-> doc.object]
    ELSE [err |-> Err(sJsonErr), tfOutputs |-> NoMap]

\* mutant: the error of init is not looked at
OutputsCallIgnoringInit(terraformDirErr, varsDirErr, initRun, run) ==
    IF ~terraformDirErr.isNil
    THEN Failure(terraformDirErr, <<>>, <<Called("GetTerraformDir", terraformDirErr)>>)
    ELSE IF ~varsDirErr.isNil
    THEN Failure(varsDirErr, <<>>, <<Ok("GetTerraformDir"), Called("GetVarsDir", varsDirErr)>>)
    ELSE LET init == Invocation("Run", "os.Stdout", PathString(terraformDir), <<sInit>>,
                                <<>>, FALSE, initRun)
             inv == Invocation("Run", "buffer", PathString(terraformDir),
                               StatePointer(<<sOutput, sJson>>), <<>>, TRUE, run)
             ev == <<Ok("GetTerraformDir"), Ok("GetVarsDir"), Called("Run", initRun.err), Stat,
                     Called("Run", run.err)>>
         IN IF ~run.err.isNil
            THEN Failure(Errorf(pOutputs, run.err), <<init, inv>>, ev)
            ELSE LET decoded == Unmarshal(run.out)
                 IN IF ~decoded.err.isNil
                    THEN Failure(Errorf(pUnmarshal, decoded.err), <<init, inv>>, ev)
                    ELSE Result(Nil, <<>>, FALSE,
                                [k \in DOMAIN decoded.tfOutputs |-> decoded.tfOutputs[k].Value],
                                <<init, inv>>, ev)

OutputsCall(terraformDirErr, varsDirErr, initRun, run) ==
    IF ~terraformDirErr.isNil
    THEN Failure(terraformDirErr, <<>>, <<Called("GetTerraformDir", terraformDirErr)>>)
    ELSE IF ~varsDirErr.isNil
    THEN Failure(varsDirErr, <<>>, <<Ok("GetTerraformDir"), Called("GetVarsDir", varsDirErr)>>)
    ELSE LET init == Invocation("Run", "os.Stdout", PathString(terraformDir), <<sInit>>,
                                <<>>, FALSE, initRun)
         IN IF ~initRun.err.isNil
            THEN Failure(Errorf(pInitInDir, initRun.err), <<init>>,
                         <<Ok("GetTerraformDir"), Ok("GetVarsDir"), Called("Run", initRun.err)>>)
            ELSE LET inv == Invocation("Run", "buffer", PathString(terraformDir),
                                       StatePointer(<<sOutput, sJson>>), <<>>, TRUE, run)
                     ev == <<Ok("GetTerraformDir"), Ok("GetVarsDir"), Ok("Run"), Stat,
                             Called("Run", run.err)>>
                 IN IF ~run.err.isNil
                    THEN Failure(Errorf(pOutputs, run.err), <<init, inv>>, ev)
                    ELSE LET decoded == Unmarshal(run.out)
                         IN IF ~decoded.err.isNil
                            THEN Failure(Errorf(pUnmarshal, decoded.err), <<init, inv>>, ev)
                            ELSE Result(Nil, <<>>, FALSE,
                                        [k \in DOMAIN decoded.tfOutputs |->
                                            decoded.tfOutputs[k].Value],
                                        <<init, inv>>, ev)

\* mutant: the output is compared after trimming a trailing newline
NothingPavedTrimmed(shown) ==
    TrimSuffix(shown, <<"\n">>) = sNoState
\* line 310
NothingPaved(shown) ==
    shown = sNoState

\* mutant: the error of GetVarsDir is wrapped like the error of show
IsPavedCallWrapping(terraformDirErr, varsDirErr, initRun, run) ==
    IF ~terraformDirErr.isNil
    THEN Failure(terraformDirErr, <<>>, <<Called("GetTerraformDir", terraformDirErr)>>)
    ELSE LET init == Invocation("Run", "os.Stdout", PathString(terraformDir), <<sInit>>,
                                <<>>, FALSE, initRun)
         IN IF ~initRun.err.isNil
            THEN Failure(Errorf(pInitInDir, initRun.err), <<init>>,
                         <<Ok("GetTerraformDir"), Called("Run", initRun.err)>>)
            ELSE IF ~varsDirErr.isNil
            THEN Failure(Errorf(pShow, varsDirErr), <<init>>,
                         <<Ok("GetTerraformDir"), Ok("Run"), Called("GetVarsDir", varsDirErr)>>)
            ELSE LET inv == Invocation("Run", "buffer", PathString(terraformDir),
                                       StatePointer(<<sShow>>), <<>>, TRUE, run)
                     ev == <<Ok("GetTerraformDir"), Ok("Run"), Ok("GetVarsDir"), Stat,
                             Called("Run", run.err)>>
                 IN IF ~run.err.isNil
                    THEN Failure(Errorf(pShow, run.err), <<init, inv>>, ev)
                    ELSE Result(Nil, <<>>, ~NothingPaved(run.out), NoMap, <<init, inv>>, ev)

IsPavedCall(terraformDirErr, varsDirErr, initRun, run) ==
    IF ~terraformDirErr.isNil
    THEN Failure(terraformDirErr, <<>>, <<Called("GetTerraformDir", terraformDirErr)>>)
    ELSE LET init == Invocation("Run", "os.Stdout", PathString(terraformDir), <<sInit>>,
                                <<>>, FALSE, initRun)
         IN IF ~initRun.err.isNil
            THEN Failure(Errorf(pInitInDir, initRun.err), <<init>>,
                         <<Ok("GetTerraformDir"), Called("Run", initRun.err)>>)
            ELSE IF ~varsDirErr.isNil
            THEN Failure(varsDirErr, <<init>>,
                         <<Ok("GetTerraformDir"), Ok("Run"), Called("GetVarsDir", varsDirErr)>>)
            ELSE LET inv == Invocation("Run", "buffer", PathString(terraformDir),
                                       StatePointer(<<sShow>>), <<>>, TRUE, run)
                     ev == <<Ok("GetTerraformDir"), Ok("Run"), Ok("GetVarsDir"), Stat,
                             Called("Run", run.err)>>
                 IN IF ~run.err.isNil
                    THEN Failure(Errorf(pShow, run.err), <<init, inv>>, ev)
                    ELSE Result(Nil, <<>>, ~NothingPaved(run.out), NoMap, <<init, inv>>, ev)

(***************************************************************************)
(* Setup and formatVars                                                    *)
(***************************************************************************)
StringValue(s) ==
    [kind |-> "string", s |-> s, list |-> <<>>]
ListValue(l) ==
    [kind |-> "[]string", s |-> <<>>, list |-> l]
Contains(s, c) ==
    \E i \in 1..Len(s) : s[i] = c
\* lines 95-103: the text of one value
FormatValue(value) ==
    IF value.kind = "string"
    THEN LET vString == <<"\"">> \o value.s \o <<"\"">>
         IN IF Contains(vString, "\n") THEN ReplaceNewlines(vString) ELSE vString
    ELSE <<"[", "\"">> \o StringsJoin(value.list, <<"\"", ",", "\"">>) \o <<"\"", "]">>
\* the loop of lines 94-105 over the entries in the order the map iteration
\* yields them
RECURSIVE FormatEntries(_, _)
FormatEntries(entries, formattedVars) ==
    IF entries = <<>> THEN formattedVars
    ELSE FormatEntries(Tail(entries),
                       formattedVars \o <<"\n">> \o entries[1].name \o <<"=">>
                           \o FormatValue(entries[1].value))
formatVars(entries) ==
    FormatEntries(entries, <<>>)

\* map[string]interface{} values handed to Setup
InputMaps ==
    {{},
     {[name |-> <<"a">>, value |-> StringValue(<<"x", "\n", "y">>)]},
     {[name |-> <<"a">>, value |-> StringValue(<<"x">>)],
      [name |-> <<"l">>, value |-> ListValue(<< <<"a">>, <<"b">> >>)]}}
Templates ==
    {<<"t", "1">>, <<"t", "2">>}
FsFaults ==
    {"none", "template", "mkdir", "gitignore", "vars"}

\* mutant: the file is opened for appending instead of being truncated
WriteFileAppend(file, data, fails) ==
    IF fails THEN [err |-> Err(sFsErr), file |-> file]
    ELSE [err |-> Nil, file |-> File(file.data \o data)]
\* e.fs.WriteFile(path, data, mode)
WriteFile(file, data, fails) ==
    IF fails THEN [err |-> Err(sFsErr), file |-> file]
    ELSE [err |-> Nil, file |-> File(data)]
\* os.MkdirAll(path, os.ModePerm): no error when the directory is there already
MkdirAll(isDir, fails) ==
    IF fails THEN [err |-> Err(sFsErr), isDir |-> isDir]
    ELSE [err |-> Nil, isDir |-> TRUE]

\* the error, the collaborator calls and the files after Setup
SetupResult(e, ev, template, dir, ignore, tfvars) ==
    [err |-> e, events |-> ev, templateFile |-> template, dotTerraform |-> dir,
     gitignoreFile |-> ignore, bblTfvarsFile |-> tfvars,
     varsEntries |-> IF tfvars.exists THEN varsEntries \cup {sBblTfvars} ELSE varsEntries]

SetupCall(template, input, terraformDirErr, varsDirErr, fault) ==
    IF ~terraformDirErr.isNil
    THEN SetupResult(terraformDirErr, <<Called("GetTerraformDir", terraformDirErr)>>,
                     templateFile, dotTerraform, gitignoreFile, bblTfvarsFile)
    ELSE LET w1 == WriteFile(templateFile, template, fault = "template")
         IN IF ~w1.err.isNil
            THEN SetupResult(Errorf(pWriteTemplate, w1.err),
                             <<Ok("GetTerraformDir"), Called("WriteFile", w1.err)>>,
                             w1.file, dotTerraform, gitignoreFile, bblTfvarsFile)
            ELSE IF ~varsDirErr.isNil
            THEN SetupResult(varsDirErr,
                             <<Ok("GetTerraformDir"), Ok("WriteFile"),
                               Called("GetVarsDir", varsDirErr)>>,
                             w1.file, dotTerraform, gitignoreFile, bblTfvarsFile)
            ELSE LET mk == MkdirAll(dotTerraform, fault = "mkdir")
                 IN IF ~mk.err.isNil
                    THEN SetupResult(Errorf(pCreateDir, mk.err),
                                     <<Ok("GetTerraformDir"), Ok("WriteFile"), Ok("GetVarsDir"),
                                       Called("MkdirAll", mk.err)>>,
                                     w1.file, mk.isDir, gitignoreFile, bblTfvarsFile)
                    ELSE LET w2 == WriteFile(gitignoreFile, sStar, fault = "gitignore")
                         IN IF ~w2.err.isNil
                            THEN SetupResult(Errorf(pWriteGitignore, w2.err),
                                             <<Ok("GetTerraformDir"), Ok("WriteFile"),
                                               Ok("GetVarsDir"), Ok("MkdirAll"),
                                               Called("WriteFile", w2.err)>>,
                                             w1.file, mk.isDir, w2.file, bblTfvarsFile)
                            ELSE LET w3 == WriteFile(bblTfvarsFile, formatVars(input),
                                                     fault = "vars")
                                     ev == <<Ok("GetTerraformDir"), Ok("WriteFile"),
                                             Ok("GetVarsDir"), Ok("MkdirAll"), Ok("WriteFile"),
                                             Called("WriteFile", w3.err)>>
                                 IN IF ~w3.err.isNil
                                    THEN SetupResult(Errorf(pWriteVars, w3.err), ev,
                                                     w1.file, mk.isDir, w2.file, w3.file)
                                    ELSE SetupResult(Nil, ev, w1.file, mk.isDir, w2.file, w3.file)

(***************************************************************************)
(* The actions: one per method of the Executor.                            *)
(***************************************************************************)
Returns(name, arguments, r) ==
    /\ op' = name
    /\ given' = arguments
    /\ before' = Snapshot
    /\ err' = r.err
    /\ retStr' = r.str
    /\ retBool' = r.bool
    /\ retMap' = r.map
    /\ calls' = r.calls
    /\ events' = r.events
    /\ UNCHANGED <<config, disk>>

Setup ==
    \E template \in Templates, m \in InputMaps, fault \in FsFaults,
       terraformDirErr \in StoreAnswers(sTerraformDirErr),
       varsDirErr \in StoreAnswers(sVarsDirErr) :
        \E input \in Perms(m) :
            LET r == SetupCall(template, input, terraformDirErr, varsDirErr, fault)
            IN /\ op' = "Setup"
               /\ given' = [NoArguments EXCEPT !.template = template, !.vars = input]
               /\ before' = Snapshot
               /\ err' = r.err
               /\ events' = r.events
               /\ templateFile' = r.templateFile
               /\ dotTerraform' = r.dotTerraform
               /\ gitignoreFile' = r.gitignoreFile
               /\ bblTfvarsFile' = r.bblTfvarsFile
               /\ varsEntries' = r.varsEntries
               /\ retStr' = <<>>
               /\ retBool' = FALSE
               /\ retMap' = NoMap
               /\ calls' = <<>>
               /\ UNCHANGED config

Init ==
    \E terraformDirErr \in StoreAnswers(sTerraformDirErr),
       run \in RunFailures \cup {RunSuccess(<<>>)} :
        Returns("Init", NoArguments, InitCall(terraformDirErr, run))

Apply ==
    \E m \in CredentialMaps, readDir \in ReadDirAnswers,
       terraformDirErr \in StoreAnswers(sTerraformDirErr),
       varsDirErr \in StoreAnswers(sVarsDirErr),
       run \in RunFailures \cup {RunSuccess(<<>>)} :
        \E credentials \in Perms(m) :
            Returns("Apply", [NoArguments EXCEPT !.credentials = credentials],
                    ApplyCall(credentials, varsDirErr, terraformDirErr, readDir, run))

Destroy ==
    \E m \in CredentialMaps, readDir \in ReadDirAnswers,
       terraformDirErr \in StoreAnswers(sTerraformDirErr),
       varsDirErr \in StoreAnswers(sVarsDirErr),
       run \in RunFailures \cup {RunSuccess(<<>>)} :
        \E credentials \in Perms(m) :
            Returns("Destroy", [NoArguments EXCEPT !.credentials = credentials],
                    DestroyCall(credentials, varsDirErr, terraformDirErr, readDir, run))

\* what the version subcommand may print
VersionAlphabet ==
    {"1", ".", "v", "\n"}
VersionOutputs ==
    UNION {[1..n -> VersionAlphabet] : n \in 0..MaxOutLen}
VersionSamples ==
    {<<"v", "0", ".", "1", "1", ".", "7", "\n">>, <<"1", "2", "3", "4", "5">>, <<"v">>}
Version(outputs) ==
    \E run \in RunFailures \cup {RunSuccess(o) : o \in outputs} :
        Returns("Version", NoArguments, VersionCall(run))

OutputTexts ==
    {<<"b", "a", "r", "\n">>, <<"b", "a", "r", "\n", "\n">>, <<"b", "a", "r">>}
Output ==
    \E outputName \in OutputNames,
       terraformDirErr \in StoreAnswers(sTerraformDirErr),
       varsDirErr \in StoreAnswers(sVarsDirErr),
       initRun \in RunFailures \cup {RunSuccess(<<>>)},
       run \in RunFailures \cup {RunSuccess(o) : o \in OutputTexts} :
        Returns("Output", [NoArguments EXCEPT !.outputName = outputName],
                OutputCall(outputName, terraformDirErr, varsDirErr, initRun, run))

JsonDocuments ==
    {[valid |-> FALSE, object |-> NoMap],
     [valid |-> TRUE, object |-> NoMap],
     [valid |-> TRUE,
      object |-> [k \in {"ip"} |-> [Sensitive |-> FALSE, Type |-> "string", Value |-> "10.0.0.1"]]]}
Outputs ==
    \E terraformDirErr \in StoreAnswers(sTerraformDirErr),
       varsDirErr \in StoreAnswers(sVarsDirErr),
       initRun \in RunFailures \cup {RunSuccess(<<>>)},
       run \in RunFailures \cup {RunSuccess(o) : o \in JsonDocuments} :
        Returns("Outputs", NoArguments,
                OutputsCall(terraformDirErr, varsDirErr, initRun, run))

ShowTexts ==
    {sNoState, sNoState \o <<"\n">>, SubSeq(sNoState, 1, 8), <<" ">> \o sNoState, <<>>}
IsPaved ==
    \E terraformDirErr \in StoreAnswers(sTerraformDirErr),
       varsDirErr \in StoreAnswers(sVarsDirErr),
       initRun \in RunFailures \cup {RunSuccess(<<>>)},
       run \in RunFailures \cup {RunSuccess(o) : o \in ShowTexts} :
        Returns("IsPaved", NoArguments,
                IsPavedCall(terraformDirErr, varsDirErr, initRun, run))

(***************************************************************************)
(* Specifications.                                                         *)
(***************************************************************************)
\* the state after NewExecutor, before any method ran
Constructed(debugs, terraformDirs, varsDirs, entrySets, dotTerraforms) ==
    /\ debug \in debugs
    /\ terraformDir \in terraformDirs
    /\ varsDir \in varsDirs
    /\ varsEntries \in entrySets
    /\ templateFile = Absent
    /\ dotTerraform \in dotTerraforms
    /\ gitignoreFile = Absent
    /\ bblTfvarsFile = IF sBblTfvars \in varsEntries THEN File(<<>>) ELSE Absent
    /\ op = "NewExecutor"
    /\ given = NoArguments
    /\ before = Snapshot
    /\ err = Nil
    /\ retStr = <<>>
    /\ retBool = FALSE
    /\ retMap = NoMap
    /\ calls = <<>>
    /\ events = <<>>

NewExecutor ==
    Constructed(BOOLEAN, TerraformDirs, VarsDirs,
                {s \in SUBSET FileNames : Cardinality(s) <= MaxEntries}, {TRUE})
Next ==
    \/ Init
    \/ Apply
    \/ Destroy
    \/ Version(VersionSamples)
    \/ Output
    \/ Outputs
    \/ IsPaved
Spec ==
    NewExecutor /\ [][Next]_vars

\* Setup alone, on a working directory with or without .terraform
NewExecutorForSetup ==
    Constructed(BOOLEAN, {[abs |-> TRUE, comps |-> << <<"s">>, <<"t", "f">> >>]},
                {[abs |-> TRUE, comps |-> << <<"s">>, <<"v">> >>]},
                {s \in SUBSET {fA, sTfstate} : Cardinality(s) <= MaxEntries}, BOOLEAN)
NextSetup ==
    Setup
SpecSetup ==
    NewExecutorForSetup /\ [][NextSetup]_vars

\* Version alone, over every output of at most MaxOutLen characters
NewExecutorForVersion ==
    Constructed(BOOLEAN, {[abs |-> TRUE, comps |-> << <<"s">>, <<"t", "f">> >>]},
                {[abs |-> TRUE, comps |-> << <<"s">>, <<"v">> >>]}, {{}}, {TRUE})
NextVersion ==
    Version(VersionOutputs)
SpecVersion ==
    NewExecutorForVersion /\ [][NextVersion]_vars

(***************************************************************************)
(* Properties.                                                             *)
(***************************************************************************)
StateReaders ==
    {"Output", "Outputs", "IsPaved"}

\* C1: when the RunWithEnv invocation of Apply or Destroy fails, the caller
\* gets the fixed redacted message if debug is off, whatever the original
\* text, and the Process Runner's error unchanged if debug is on; when the
\* invocation succeeds the caller gets no error.
C1_Redaction ==
    (op \in {"Apply", "Destroy"} /\ Len(calls) = 1) =>
        LET failure == calls[1].result
        IN IF failure.isNil THEN err.isNil
           ELSE IF debug THEN err = failure
           ELSE err = Err(redactedError)
C1_Witness ==
    /\ op = "Destroy" /\ Len(calls) = 1
    /\ ~calls[1].result.isNil /\ ~debug /\ err = Err(redactedError)

\* C2 as stated: in Init, Version, Output, Outputs and IsPaved a failed
\* Process Runner invocation comes back as a non-empty prefix followed by the
\* original error text, never redacted.
C2_Original ==
    (/\ op \in {"Init", "Version"} \cup StateReaders
     /\ calls # <<>>
     /\ ~calls[Len(calls)].result.isNil) =>
        LET text == calls[Len(calls)].result.msg
        IN /\ ~err.isNil
           /\ Len(err.msg) > Len(text)
           /\ HasSuffix(err.msg, text)
\* C2 as amended: Init, Output, Outputs and IsPaved return the prefix of the
\* failed subcommand followed by the original error text, with debug on or
\* off; Version returns the Process Runner's error unchanged, without a
\* prefix, and is not redacted either.
C2_Amended ==
    (/\ op \in {"Init", "Version"} \cup StateReaders
     /\ calls # <<>>
     /\ ~calls[Len(calls)].result.isNil) =>
        LET failed == calls[Len(calls)]
            prefix == IF op = "Init" THEN pInit
                      ELSE IF Len(calls) = 1 THEN pInitInDir
                      ELSE IF op = "Output" THEN pOutput
                      ELSE IF op = "Outputs" THEN pOutputs
                      ELSE pShow
        IN IF op = "Version" THEN err = failed.result
           ELSE err = Err(prefix \o failed.result.msg)
C2_Witness ==
    /\ op = "Version" /\ ~debug /\ Len(calls) = 1
    /\ ~calls[1].result.isNil /\ err = calls[1].result

\* C3 as stated: the output/show invocation of Output, Outputs and IsPaved
\* has no -state flag when terraform.tfstate is absent and exactly one
\* -state pair when it is present, whose path is the state file's path
\* relative to the working directory.
C3_Original ==
    (op \in StateReaders /\ Len(calls) = 2) =>
        LET args == calls[2].args
            flags == {i \in 1..Len(args) : args[i] = sState}
        IN IF sTfstate \in varsEntries
           THEN /\ Cardinality(flags) = 1
                /\ \A i \in flags :
                    /\ i < Len(args)
                    /\ args[i + 1] = Rel(terraformDir, Join(varsDir, sTfstate)).path
           ELSE flags = {}
\* C3 as amended: ... whose path is the vars directory joined with
\* terraform.tfstate, not made relative to the working directory.
C3_Amended ==
    (op \in StateReaders /\ Len(calls) = 2) =>
        LET args == calls[2].args
            flags == {i \in 1..Len(args) : args[i] = sState}
        IN IF sTfstate \in varsEntries
           THEN /\ Cardinality(flags) = 1
                /\ \A i \in flags :
                    /\ i = Len(args) - 1
                    /\ args[i + 1] = PathString(Join(varsDir, sTfstate))
           ELSE flags = {}
C3_Witness ==
    /\ op = "IsPaved" /\ Len(calls) = 2
    /\ sTfstate \in varsEntries
    /\ terraformDir.abs /\ varsDir.abs
    /\ calls[2].args = <<sShow, sState, <<"/", "s", "/", "v", "/">> \o sTfstate>>

\* C4: the arguments Apply and Destroy hand to the Process Runner hold
\* exactly one -var-file pair, with the path relative to the working
\* directory, for each entry of the vars directory whose name ends in
\* .tfvars, none for any other entry, and exactly one -state pair with the
\* relative path of terraform.tfstate, whether or not that file exists.
C4_ArgumentAssembly ==
    (op \in {"Apply", "Destroy"} /\ Len(calls) = 1) =>
        LET args == calls[1].args
            Pairs(flag, value) ==
                {i \in 1..(Len(args) - 1) : args[i] = flag /\ args[i + 1] = value}
            RelPath(name) == Rel(terraformDir, Join(varsDir, name)).path
            tfvars == {f \in varsEntries : HasSuffix(f, sTfvarsSuffix)}
        IN /\ \A f \in varsEntries :
                Cardinality(Pairs(sVarFile, RelPath(f))) = IF f \in tfvars THEN 1 ELSE 0
           /\ Cardinality({i \in 1..Len(args) : args[i] = sVarFile}) = Cardinality(tfvars)
           /\ Cardinality({i \in 1..Len(args) : args[i] = sState}) = 1
           /\ Cardinality(Pairs(sState, RelPath(sTfstate))) = 1
C4_Witness ==
    /\ op = "Apply" /\ Len(calls) = 1
    /\ varsEntries = {fA, fNotes}
    /\ given.credentials # <<>>

\* C5: after a successful Setup the template file, the .gitignore marker and
\* bbl.tfvars hold exactly what that call wrote, whatever was on disk before
\* (the result of the same call on a fresh directory); and a Setup fails
\* only with an error a collaborator answered, never because the .terraform
\* directory or a file was already there.
C5_SetupOverwrites ==
    op = "Setup" =>
        /\ err.isNil =>
            /\ templateFile = File(given.template)
            /\ dotTerraform
            /\ gitignoreFile = File(sStar)
            /\ bblTfvarsFile = File(formatVars(given.vars))
            /\ sBblTfvars \in varsEntries
        /\ ~err.isNil =>
            /\ \E e \in {Err(sTerraformDirErr), Err(sVarsDirErr), Err(sFsErr)} :
                    events[Len(events)].err = e
            /\ before.dotTerraform => dotTerraform
C5_Witness ==
    /\ op = "Setup" /\ err.isNil
    /\ before.templateFile.exists /\ before.templateFile.data # given.template
    /\ before.dotTerraform /\ before.gitignoreFile.exists
    /\ before.bblTfvarsFile.exists /\ before.bblTfvarsFile # bblTfvarsFile

\* C6: when the version subcommand succeeds, Version returns the first
\* substring of the output of the shape digits, dot, digits, dot, digits,
\* and fails with the parse error, returning no version, when the output has
\* no such substring.
C6_Version ==
    (op = "Version" /\ Len(calls) = 1 /\ calls[1].result.isNil) =>
        LET semver == FindMatch(calls[1].out, {"."})
        IN IF semver = <<>>
           THEN err = Err(sVersionParse) /\ retStr = <<>>
           ELSE err.isNil /\ retStr = semver

\* C7: when init and show both succeed, IsPaved returns false exactly when
\* the captured output is the string "No state." and true otherwise; it
\* returns without an error exactly when both invocations succeeded.
C7_IsPaved ==
    op = "IsPaved" =>
        /\ err.isNil <=>
            (Len(calls) = 2 /\ calls[1].result.isNil /\ calls[2].result.isNil)
        /\ err.isNil => (retBool = FALSE <=> calls[2].out = sNoState)
        /\ ~err.isNil => retBool = FALSE
C7_Witness ==
    /\ op = "IsPaved" /\ err.isNil
    /\ retBool = TRUE /\ calls[2].out = sNoState \o <<"\n">>

\* C8 as stated: Output, Outputs and IsPaved read the vars directory and
\* append a -var-file pair for every .tfvars entry to the output/show
\* arguments.
C8_Original ==
    (op \in StateReaders /\ Len(calls) = 2) =>
        /\ \E i \in 1..Len(events) : events[i].call = "ReadDir"
        /\ \A f \in varsEntries :
            HasSuffix(f, sTfvarsSuffix) =>
                \E i \in 1..(Len(calls[2].args) - 1) :
                    /\ calls[2].args[i] = sVarFile
                    /\ calls[2].args[i + 1] = Rel(terraformDir, Join(varsDir, f)).path
\* C8 as amended: only Apply and Destroy read the vars directory and append
\* a -var-file pair for every .tfvars entry; Output, Outputs and IsPaved
\* never read it and append nothing but the optional -state pair to the
\* subcommand (and the output name).
C8_Amended ==
    /\ (op \in StateReaders /\ Len(calls) = 2) =>
        LET args == calls[2].args
            fixed == IF op = "IsPaved" THEN 1 ELSE 2
        IN /\ \A i \in 1..Len(events) : events[i].call # "ReadDir"
           /\ \A i \in (fixed + 1)..Len(args) : args[i] # sVarFile
           /\ Len(args) \in {fixed, fixed + 2}
    /\ (op \in {"Apply", "Destroy"} /\ Len(calls) = 1) =>
        /\ \E i \in 1..Len(events) : events[i].call = "ReadDir"
        /\ \A f \in varsEntries :
            HasSuffix(f, sTfvarsSuffix) =>
                \E i \in 1..(Len(calls[1].args) - 1) :
                    /\ calls[1].args[i] = sVarFile
                    /\ calls[1].args[i + 1] = Rel(terraformDir, Join(varsDir, f)).path
C8_Witness ==
    /\ op = "Outputs" /\ Len(calls) = 2
    /\ varsEntries = {fA, fB}
    /\ calls[2].args = <<sOutput, sJson>>

\* C9 as stated: Apply, Destroy, Output, Outputs and IsPaved resolve both
\* directories before their first Process Runner invocation, so a failing
\* GetVarsDir or GetTerraformDir is returned unchanged and nothing was
\* invoked.
C9_Original ==
    op \in {"Apply", "Destroy"} \cup StateReaders =>
        /\ \A i \in 1..Len(events) :
            events[i].call \in {"Run", "RunWithEnv"} =>
                /\ \E j \in 1..(i - 1) : events[j].call = "GetTerraformDir"
                /\ \E j \in 1..(i - 1) : events[j].call = "GetVarsDir"
        /\ \A i \in 1..Len(events) :
            (events[i].call \in {"GetTerraformDir", "GetVarsDir"} /\ ~events[i].err.isNil) =>
                err = events[i].err /\ calls = <<>>
\* C9 as amended: that holds of Apply, Destroy, Output and Outputs; IsPaved
\* resolves the working directory before init but the vars directory only
\* after init succeeded and before show, so in IsPaved a failing
\* GetTerraformDir is returned unchanged with nothing invoked, and a failing
\* GetVarsDir is returned unchanged after exactly one invocation, the init.
C9_Amended ==
    /\ op \in {"Apply", "Destroy", "Output", "Outputs"} =>
        /\ \A i \in 1..Len(events) :
            events[i].call \in {"Run", "RunWithEnv"} =>
                /\ \E j \in 1..(i - 1) : events[j].call = "GetTerraformDir"
                /\ \E j \in 1..(i - 1) : events[j].call = "GetVarsDir"
        /\ \A i \in 1..Len(events) :
            (events[i].call \in {"GetTerraformDir", "GetVarsDir"} /\ ~events[i].err.isNil) =>
                err = events[i].err /\ calls = <<>>
    /\ op = "IsPaved" =>
        /\ \A i \in 1..Len(events) :
            events[i].call = "Run" =>
                \E j \in 1..(i - 1) : events[j].call = "GetTerraformDir"
        /\ \A i \in 1..Len(events) :
            events[i].call = "GetVarsDir" =>
                /\ Cardinality({j \in 1..(i - 1) : events[j].call = "Run"}) = 1
                /\ \A j \in 1..(i - 1) : events[j].err.isNil
        /\ Len(calls) = 2 => \E i \in 1..Len(events) : events[i].call = "GetVarsDir"
        /\ \A i \in 1..Len(events) :
            (events[i].call = "GetTerraformDir" /\ ~events[i].err.isNil) =>
                err = events[i].err /\ calls = <<>>
        /\ \A i \in 1..Len(events) :
            (events[i].call = "GetVarsDir" /\ ~events[i].err.isNil) =>
                /\ err = events[i].err
                /\ Len(calls) = 1 /\ calls[1].args = <<sInit>> /\ calls[1].result.isNil
C9_Witness ==
    /\ op = "IsPaved" /\ err = Err(sVarsDirErr)
    /\ Len(calls) = 1 /\ calls[1].args = <<sInit>>

\* C10: in Output, Outputs and IsPaved the first Process Runner invocation
\* is init in the working directory; output/show is invoked only after init
\* succeeded; a failed init ends the call with an error; no subcommand is
\* invoked twice, so a call makes at most two invocations.
C10_InitThenCommand ==
    op \in StateReaders =>
        /\ Len(calls) <= 2
        /\ Len(calls) >= 1 =>
            /\ calls[1].args = <<sInit>>
            /\ calls[1].dir = PathString(terraformDir)
            /\ ~calls[1].result.isNil => (Len(calls) = 1 /\ ~err.isNil)
        /\ Len(calls) = 2 =>
            /\ calls[1].result.isNil
            /\ calls[2].args[1] = IF op = "IsPaved" THEN sShow ELSE sOutput
            /\ calls[2].dir = PathString(terraformDir)
        /\ Len(calls) = Cardinality({i \in 1..Len(events) : events[i].call = "Run"})
C10_Witness ==
    /\ op = "Outputs" /\ Len(calls) = 1
    /\ ~calls[1].result.isNil /\ ~err.isNil
====
